---- MODULE Spec2Model ----
(***************************************************************************)
(* State-machine model of src/app.js: the PresentationApp slide navigator  *)
(* (nextSlide / previousSlide / goToSlide and its settle continuation) and *)
(* the chart renderer (initializeBookmakerChart), driven by the keyboard,  *)
(* touch, button and programmatic inputs the code registers.               *)
(*                                                                         *)
(* Timers.  setTimeout callbacks are counted in settleTimers (the 50 ms    *)
(* continuation of goToSlide) and chartTimers (the 200 ms continuation     *)
(* that calls initializeBookmakerChart).  A chart timer is only ever       *)
(* created by a settle continuation, and a settle timer only while no      *)
(* other one is pending, so every order in which the model runs pending    *)
(* timers and input events is an order real time allows.                   *)
(***************************************************************************)
EXTENDS Integers, FiniteSets, Sequences, TLC

\* ---------------------------------------------------------------- constants
TotalSlides == 12          \* this.totalSlides
TriggerSlide == 8          \* the slide whose settle schedules the chart
SwipeThreshold == 50       \* swipeThreshold in the touchend handler
NumSlides == 12            \* length of document.querySelectorAll('.slide')

\* ------------------------------------------------------------------- bounds
MaxCharts == 2             \* charts built plus renders pending, at most
TargetSlack == 2           \* how far outside [1, totalSlides] a jump may aim
MaxOddsCents == 240        \* largest decimal odds tried, in hundredths (2.40)

Targets == (1 - TargetSlack) .. (TotalSlides + TargetSlack)
TouchXs == {0, 50, 101}    \* clientX values of touches
Keys == {"ArrowLeft", "ArrowRight", "Enter"}
\* decimal odds greater than 1 with two decimals, in hundredths: 1.01 ..
OddsCents == 101 .. MaxOddsCents

VARIABLES
    currentSlide,      \* this.currentSlide
    isTransitioning,   \* this.isTransitioning
    active,            \* indices (1-based) of slides carrying class 'active'
    prevBtn,           \* [disabled, text] of #prev-btn
    nextBtn,           \* [disabled, text] of #next-btn
    counterText,       \* [current, total] shown in the two counter spans
    startX,            \* closure variable of the touch handlers
    settleTimers,      \* pending 50 ms continuations of goToSlide
    chartTimers,       \* pending continuations calling initializeBookmakerChart
    bookmakerChart,    \* this.bookmakerChart: 0 is null, else a chart id
    liveCharts,        \* ids of charts constructed and not destroyed
    chartsCreated,     \* number of charts constructed so far (next id - 1)
    canvasPresent,     \* whether #bookmaker-chart exists in the document
    last,              \* the handler that ran last, and what it did
    odds1,             \* first argument of calculateArbitrageProfit, in hundredths
    odds2,             \* second argument, in hundredths
    profit             \* what calculateArbitrageProfit returned

navVars == <<currentSlide, isTransitioning, active, prevBtn, nextBtn,
             counterText, settleTimers, chartTimers>>
chartVars == <<bookmakerChart, liveCharts, chartsCreated>>
vars == <<currentSlide, isTransitioning, active, prevBtn, nextBtn,
          counterText, startX, settleTimers, chartTimers, bookmakerChart,
          liveCharts, chartsCreated, canvasPresent, last,
          odds1, odds2, profit>>
arbVars == <<odds1, odds2, profit>>

\* What the last handler was: src is the event source, op the navigator
\* method it reached, arg that method's argument, acc whether a transition
\* was started, prevented whether e.preventDefault() was called, res the
\* outcome of a chart render.
Rec(src, op, arg, acc, prevented, res) ==
    [src |-> src, op |-> op, arg |-> arg, acc |-> acc,
     prevented |-> prevented, res |-> res]

\* ------------------------------------------------------------ pure helpers
Abs(x) == IF x < 0 THEN -x ELSE x

\* showCurrentSlide: remove 'active' everywhere, add it to slides[cur - 1]
ShowCurrentSlide_OffByOne(cur) ==
    IF cur + 1 \in 1..NumSlides THEN {cur + 1} ELSE {}
ShowCurrentSlide(cur) ==
    IF cur \in 1..NumSlides THEN {cur} ELSE {}

\* updateNavigationButtons
PrevBtnState(cur) ==
    [disabled |-> (cur = 1),
     text |-> IF cur = 1 THEN "Start" ELSE "<- Previous"]
NextBtnState_OffByOne(cur) ==
    [disabled |-> (cur = TotalSlides - 1),
     text |-> IF cur = TotalSlides - 1 THEN "End" ELSE "Next ->"]
NextBtnState(cur) ==
    [disabled |-> (cur = TotalSlides),
     text |-> IF cur = TotalSlides THEN "End" ELSE "Next ->"]

\* ---------------------------------------------- DataUtils (exact arithmetic)
\* Odds are counted in hundredths, so 1/odds1 + 1/odds2 is the fraction
\* 100*(o1 + o2) / (o1*o2); the model computes with exact fractions where
\* the code computes with doubles.
ImpliedProbSum(o1, o2) == [num |-> 100 * (o1 + o2), den |-> o1 * o2]

\* (num/den).toFixed(2) for num >= 0, den > 0: the nearest multiple of 0.01,
\* the larger one on a tie, as a count of hundredths
ToFixed2_Trunc(num, den) == (100 * num) \div den
ToFixed2(num, den) == (200 * num + den) \div (2 * den)

\* the value calculateArbitrageProfit has not (yet) returned
NoProfit == [type |-> "none", hundredths |-> 0]

\* calculateArbitrageProfit: the number 0, or the string profit.toFixed(2)
CalculateArbitrageProfit(o1, o2) ==
    LET total == ImpliedProbSum(o1, o2) IN
    IF total.num < total.den
    THEN [type |-> "string",
          hundredths |-> ToFixed2(100 * (total.den - total.num), total.num)]
    ELSE [type |-> "number", hundredths |-> 0]

\* updateSlideCounter
CounterState(cur) == [current |-> cur, total |-> TotalSlides]

\* the guard of goToSlide
GoToSlideRejects_LowOff(slideNumber) ==
    slideNumber < 0 \/ slideNumber > TotalSlides \/ isTransitioning
GoToSlideRejects_NoFlag(slideNumber) ==
    slideNumber < 1 \/ slideNumber > TotalSlides
GoToSlideRejects_HighOff(slideNumber) ==
    slideNumber < 1 \/ slideNumber > TotalSlides + 1 \/ isTransitioning
GoToSlideRejects(slideNumber) ==
    slideNumber < 1 \/ slideNumber > TotalSlides \/ isTransitioning

\* goToSlide up to and including the setTimeout call
GoToSlide_FlagNotSet(slideNumber) ==
    IF GoToSlideRejects(slideNumber)
    THEN UNCHANGED navVars
    ELSE /\ isTransitioning' = isTransitioning
         /\ active' = IF currentSlide \in 1..NumSlides
                      THEN active \ {currentSlide} ELSE active
         /\ currentSlide' = slideNumber
         /\ settleTimers' = settleTimers + 1
         /\ UNCHANGED <<prevBtn, nextBtn, counterText, chartTimers>>
GoToSlide_SkipSame(slideNumber) ==
    IF GoToSlideRejects(slideNumber) \/ slideNumber = currentSlide
    THEN UNCHANGED navVars
    ELSE /\ isTransitioning' = TRUE
         /\ active' = IF currentSlide \in 1..NumSlides
                      THEN active \ {currentSlide} ELSE active
         /\ currentSlide' = slideNumber
         /\ settleTimers' = settleTimers + 1
         /\ UNCHANGED <<prevBtn, nextBtn, counterText, chartTimers>>
GoToSlide_ShowNow(slideNumber) ==
    IF GoToSlideRejects(slideNumber)
    THEN UNCHANGED navVars
    ELSE /\ isTransitioning' = TRUE
         /\ active' = ShowCurrentSlide(slideNumber)
         /\ currentSlide' = slideNumber
         /\ settleTimers' = settleTimers + 1
         /\ UNCHANGED <<prevBtn, nextBtn, counterText, chartTimers>>
GoToSlide(slideNumber) ==
    IF GoToSlideRejects(slideNumber)
    THEN UNCHANGED navVars
    ELSE /\ isTransitioning' = TRUE
         /\ active' = IF currentSlide \in 1..NumSlides
                      THEN active \ {currentSlide} ELSE active
         /\ currentSlide' = slideNumber
         /\ settleTimers' = settleTimers + 1
         /\ UNCHANGED <<prevBtn, nextBtn, counterText, chartTimers>>

\* nextSlide
NextSlideCall_Wrap ==
    IF isTransitioning
    THEN UNCHANGED navVars
    ELSE GoToSlide(IF currentSlide >= TotalSlides THEN 1 ELSE currentSlide + 1)
NextSlideCall ==
    IF isTransitioning \/ currentSlide >= TotalSlides
    THEN UNCHANGED navVars
    ELSE GoToSlide(currentSlide + 1)

\* previousSlide
PreviousSlideCall_Wrap ==
    IF isTransitioning
    THEN UNCHANGED navVars
    ELSE GoToSlide(IF currentSlide <= 1 THEN TotalSlides ELSE currentSlide - 1)
PreviousSlideCall ==
    IF isTransitioning \/ currentSlide <= 1
    THEN UNCHANGED navVars
    ELSE GoToSlide(currentSlide - 1)

\* whether a call of nextSlide / previousSlide / goToSlide starts a transition
NextAccepts == ~(isTransitioning \/ currentSlide >= TotalSlides)
PrevAccepts == ~(isTransitioning \/ currentSlide <= 1)
JumpAccepts(n) == ~(n < 1 \/ n > TotalSlides \/ isTransitioning)

\* The model stops offering inputs that would start another visit of the
\* trigger slide once MaxCharts charts are built or waiting to be built.
Budget(accepted, target) ==
    (accepted /\ target = TriggerSlide) => chartsCreated + chartTimers < MaxCharts

\* ------------------------------------------------------------------- Init
\* The state after `new PresentationApp()`: the constructor's assignments
\* followed by init(), whose chart branch is dead because currentSlide is 1.
Init ==
    /\ currentSlide = 1
    /\ isTransitioning = FALSE
    /\ active = ShowCurrentSlide(1)
    /\ prevBtn = PrevBtnState(1)
    /\ nextBtn = NextBtnState(1)
    /\ counterText = CounterState(1)
    /\ startX = 0
    /\ settleTimers = 0
    /\ chartTimers = 0
    /\ bookmakerChart = 0
    /\ liveCharts = {}
    /\ chartsCreated = 0
    /\ canvasPresent \in BOOLEAN
    /\ last = Rec("init", "none", 0, FALSE, FALSE, "")
    /\ odds1 = 0
    /\ odds2 = 0
    /\ profit = NoProfit

\* ------------------------------------------------- programmatic navigation
\* app.nextSlide()
NextSlide ==
    /\ Budget(NextAccepts, currentSlide + 1)
    /\ NextSlideCall
    /\ last' = Rec("api", "nextSlide", 0, NextAccepts, FALSE, "")
    /\ UNCHANGED <<startX, canvasPresent, arbVars>>
    /\ UNCHANGED chartVars

\* app.previousSlide()
PreviousSlide ==
    /\ Budget(PrevAccepts, currentSlide - 1)
    /\ PreviousSlideCall
    /\ last' = Rec("api", "previousSlide", 0, PrevAccepts, FALSE, "")
    /\ UNCHANGED <<startX, canvasPresent, arbVars>>
    /\ UNCHANGED chartVars

\* app.setSlide(n), which is goToSlide(n)
SetSlide ==
    \E n \in Targets :
        /\ Budget(JumpAccepts(n), n)
        /\ GoToSlide(n)
        /\ last' = Rec("api", "setSlide", n, JumpAccepts(n), FALSE, "")
        /\ UNCHANGED <<startX, canvasPresent, arbVars>>
        /\ UNCHANGED chartVars

\* ------------------------------------------------------------ button clicks
\* A disabled button dispatches no click event.
ClickPrev ==
    /\ ~prevBtn.disabled
    /\ Budget(PrevAccepts, currentSlide - 1)
    /\ PreviousSlideCall
    /\ last' = Rec("click", "previousSlide", 0, PrevAccepts, FALSE, "")
    /\ UNCHANGED <<startX, canvasPresent, arbVars>>
    /\ UNCHANGED chartVars

ClickNext ==
    /\ ~nextBtn.disabled
    /\ Budget(NextAccepts, currentSlide + 1)
    /\ NextSlideCall
    /\ last' = Rec("click", "nextSlide", 0, NextAccepts, FALSE, "")
    /\ UNCHANGED <<startX, canvasPresent, arbVars>>
    /\ UNCHANGED chartVars

\* ----------------------------------------------------------------- keyboard
Keydown ==
    \E key \in Keys :
        /\ IF isTransitioning
           THEN /\ UNCHANGED navVars
                /\ last' = Rec("keydown", "none", 0, FALSE, FALSE, key)
           ELSE IF key = "ArrowLeft"
           THEN /\ Budget(PrevAccepts, currentSlide - 1)
                /\ PreviousSlideCall
                /\ last' = Rec("keydown", "previousSlide", 0, PrevAccepts, TRUE, key)
           ELSE IF key = "ArrowRight"
           THEN /\ Budget(NextAccepts, currentSlide + 1)
                /\ NextSlideCall
                /\ last' = Rec("keydown", "nextSlide", 0, NextAccepts, TRUE, key)
           ELSE /\ UNCHANGED navVars
                /\ last' = Rec("keydown", "none", 0, FALSE, FALSE, key)
        /\ UNCHANGED <<startX, canvasPresent, arbVars>>
        /\ UNCHANGED chartVars

\* -------------------------------------------------------------------- touch
TouchStart ==
    \E x \in TouchXs :
        /\ startX' = x
        /\ last' = Rec("touchstart", "none", 0, FALSE, FALSE, "")
        /\ UNCHANGED navVars
        /\ UNCHANGED chartVars
        /\ UNCHANGED <<canvasPresent, arbVars>>

TouchEnd ==
    \E endX \in TouchXs :
        LET diff == startX - endX IN
        /\ IF isTransitioning
           THEN /\ UNCHANGED navVars
                /\ last' = Rec("touchend", "none", 0, FALSE, FALSE, "")
           ELSE IF Abs(diff) > SwipeThreshold
           THEN IF diff > 0
                THEN /\ Budget(NextAccepts, currentSlide + 1)
                     /\ NextSlideCall
                     /\ last' = Rec("touchend", "nextSlide", 0, NextAccepts, FALSE, "")
                ELSE /\ Budget(PrevAccepts, currentSlide - 1)
                     /\ PreviousSlideCall
                     /\ last' = Rec("touchend", "previousSlide", 0, PrevAccepts, FALSE, "")
           ELSE /\ UNCHANGED navVars
                /\ last' = Rec("touchend", "none", 0, FALSE, FALSE, "")
        /\ UNCHANGED <<startX, canvasPresent, arbVars>>
        /\ UNCHANGED chartVars

\* ------------------------------------------------------ settle continuation
\* the arrow function goToSlide hands to setTimeout(..., 50)
Settle_FlagKept ==
    /\ settleTimers > 0
    /\ settleTimers' = settleTimers - 1
    /\ active' = ShowCurrentSlide(currentSlide)
    /\ counterText' = CounterState(currentSlide)
    /\ prevBtn' = PrevBtnState(currentSlide)
    /\ nextBtn' = NextBtnState(currentSlide)
    /\ chartTimers' = IF currentSlide = TriggerSlide
                      THEN chartTimers + 1 ELSE chartTimers
    /\ isTransitioning' = isTransitioning
    /\ last' = Rec("timer", "settle", currentSlide, FALSE, FALSE, "")
    /\ UNCHANGED <<currentSlide, startX, canvasPresent, arbVars>>
    /\ UNCHANGED chartVars
Settle ==
    /\ settleTimers > 0
    /\ settleTimers' = settleTimers - 1
    /\ active' = ShowCurrentSlide(currentSlide)
    /\ counterText' = CounterState(currentSlide)
    /\ prevBtn' = PrevBtnState(currentSlide)
    /\ nextBtn' = NextBtnState(currentSlide)
    /\ chartTimers' = IF currentSlide = TriggerSlide
                      THEN chartTimers + 1 ELSE chartTimers
    /\ isTransitioning' = FALSE
    /\ last' = Rec("timer", "settle", currentSlide, FALSE, FALSE, "")
    /\ UNCHANGED <<currentSlide, startX, canvasPresent, arbVars>>
    /\ UNCHANGED chartVars

\* ------------------------------------------------------------ chart render
\* initializeBookmakerChart; built says whether `new Chart(...)` returned
\* (TRUE) or threw into the catch block (FALSE).
InitializeBookmakerChart_NoDestroy(built) ==
    IF ~canvasPresent
    THEN UNCHANGED chartVars
    ELSE IF built
         THEN /\ bookmakerChart' = chartsCreated + 1
              /\ liveCharts' = liveCharts \cup {chartsCreated + 1}
              /\ chartsCreated' = chartsCreated + 1
         ELSE /\ bookmakerChart' = bookmakerChart
              /\ liveCharts' = liveCharts
              /\ chartsCreated' = chartsCreated
InitializeBookmakerChart_OnlyOnce(built) ==
    IF ~canvasPresent \/ bookmakerChart # 0
    THEN UNCHANGED chartVars
    ELSE IF built
         THEN /\ bookmakerChart' = chartsCreated + 1
              /\ liveCharts' = liveCharts \cup {chartsCreated + 1}
              /\ chartsCreated' = chartsCreated + 1
         ELSE UNCHANGED chartVars
InitializeBookmakerChart_KeepOnFail(built) ==
    IF ~canvasPresent
    THEN UNCHANGED chartVars
    ELSE LET afterDestroy == IF bookmakerChart # 0
                             THEN liveCharts \ {bookmakerChart}
                             ELSE liveCharts
         IN IF built
            THEN /\ bookmakerChart' = chartsCreated + 1
                 /\ liveCharts' = afterDestroy \cup {chartsCreated + 1}
                 /\ chartsCreated' = chartsCreated + 1
            ELSE /\ bookmakerChart' = bookmakerChart
                 /\ liveCharts' = afterDestroy
                 /\ chartsCreated' = chartsCreated
InitializeBookmakerChart_NoCanvasCheck(built) ==
    IF built
    THEN /\ bookmakerChart' = chartsCreated + 1
         /\ liveCharts' = (liveCharts \ {bookmakerChart}) \cup {chartsCreated + 1}
         /\ chartsCreated' = chartsCreated + 1
    ELSE /\ bookmakerChart' = 0
         /\ liveCharts' = liveCharts \ {bookmakerChart}
         /\ chartsCreated' = chartsCreated
InitializeBookmakerChart(built) ==
    IF ~canvasPresent
    THEN UNCHANGED chartVars
    ELSE LET afterDestroy == IF bookmakerChart # 0
                             THEN liveCharts \ {bookmakerChart}
                             ELSE liveCharts
         IN IF built
            THEN /\ bookmakerChart' = chartsCreated + 1
                 /\ liveCharts' = afterDestroy \cup {chartsCreated + 1}
                 /\ chartsCreated' = chartsCreated + 1
            ELSE /\ bookmakerChart' = 0
                 /\ liveCharts' = afterDestroy
                 /\ chartsCreated' = chartsCreated

\* the arrow function the settle continuation hands to setTimeout(..., 200)
Render_ClearsFlag ==
    /\ chartTimers > 0
    /\ chartTimers' = chartTimers - 1
    /\ \E built \in BOOLEAN :
        /\ InitializeBookmakerChart(built)
        /\ last' = Rec("timer", "render", currentSlide, FALSE, FALSE,
                       IF ~canvasPresent THEN "nocanvas"
                       ELSE IF built THEN "built" ELSE "failed")
    /\ isTransitioning' = FALSE
    /\ UNCHANGED <<currentSlide, active, prevBtn, nextBtn,
                   counterText, settleTimers, startX, canvasPresent, arbVars>>
Render ==
    /\ chartTimers > 0
    /\ chartTimers' = chartTimers - 1
    /\ \E built \in BOOLEAN :
        /\ InitializeBookmakerChart(built)
        /\ last' = Rec("timer", "render", currentSlide, FALSE, FALSE,
                       IF ~canvasPresent THEN "nocanvas"
                       ELSE IF built THEN "built" ELSE "failed")
    /\ UNCHANGED <<currentSlide, isTransitioning, active, prevBtn, nextBtn,
                   counterText, settleTimers, startX, canvasPresent, arbVars>>

\* ------------------------------------------------------------ specification
Next ==
    \/ NextSlide
    \/ PreviousSlide
    \/ SetSlide
    \/ ClickPrev
    \/ ClickNext
    \/ Keydown
    \/ TouchStart
    \/ TouchEnd
    \/ Settle
    \/ Render

Spec == Init /\ [][Next]_vars

\* The event loop runs every timer that is due.
FairSpec == Spec /\ WF_vars(Settle) /\ WF_vars(Render)

\* ------------------------------------------------- the profit calculator
\* The page as constructed, with one call DataUtils.calculateArbitrageProfit(
\* odds1 / 100, odds2 / 100) about to be made.
ArbInit ==
    /\ currentSlide = 1
    /\ isTransitioning = FALSE
    /\ active = ShowCurrentSlide(1)
    /\ prevBtn = PrevBtnState(1)
    /\ nextBtn = NextBtnState(1)
    /\ counterText = CounterState(1)
    /\ startX = 0
    /\ settleTimers = 0
    /\ chartTimers = 0
    /\ bookmakerChart = 0
    /\ liveCharts = {}
    /\ chartsCreated = 0
    /\ canvasPresent = TRUE
    /\ last = Rec("init", "none", 0, FALSE, FALSE, "")
    /\ odds1 \in OddsCents
    /\ odds2 \in OddsCents
    /\ profit = NoProfit

CalculateProfit ==
    /\ profit = NoProfit
    /\ profit' = CalculateArbitrageProfit(odds1, odds2)
    /\ UNCHANGED <<odds1, odds2, startX, canvasPresent, last>>
    /\ UNCHANGED navVars
    /\ UNCHANGED chartVars

ArbNext == CalculateProfit

ArbSpec == ArbInit /\ [][ArbNext]_vars

\* ------------------------------------------------------------------ claims
\* C1: under every interleaving of advance, retreat and jump calls (any
\* integer target) with the timers, currentSlide stays in [1, totalSlides].
C1_SlideInRange == currentSlide \in 1..TotalSlides

\* a jump aimed below the deck was made and the position is still slide 1
C1_Witness ==
    /\ last.op = "setSlide"
    /\ last.arg < 1
    /\ currentSlide = 1

\* C2: a navigation request made while isTransitioning is true changes
\* neither currentSlide, isTransitioning, the active markers, the controls
\* nor the pending continuations.
C2_NoOpWhileTransitioning ==
    [][(isTransitioning /\ last'.src # "timer")
         => (UNCHANGED navVars /\ UNCHANGED chartVars)]_vars

\* a jump to a slide of the deck was turned down in mid-transition
C2_Witness ==
    /\ isTransitioning
    /\ last.op = "setSlide"
    /\ last.arg \in 1..TotalSlides
    /\ ~last.acc

\* C3: whenever isTransitioning is false, the slide at currentSlide carries
\* the active marker and no other slide does.
C3_OneActiveWhenSettled ==
    ~isTransitioning =>
        (active = {currentSlide} /\ Cardinality(active) = 1)

\* a transition to a slide other than the first has settled
C3_Witness ==
    /\ last.op = "settle"
    /\ ~isTransitioning
    /\ currentSlide = TotalSlides

\* C4: at most one settle continuation is pending in every reachable state.
C4_AtMostOneInFlight == settleTimers <= 1

\* a button click arrived while a transition was in flight
C4_Witness ==
    /\ settleTimers = 1
    /\ last.src = "click"
    /\ ~last.acc

\* C5: every accepted transition settles: a pending settle continuation is
\* removed only by running it, running it clears isTransitioning, and
\* isTransitioning never stays true forever.
C5_EventuallySettles ==
    /\ [][settleTimers' < settleTimers
            => (last'.op = "settle" /\ ~isTransitioning')]_vars
    /\ isTransitioning ~> ~isTransitioning

\* a settle continuation has run and cleared the flag
C5_Witness ==
    /\ last.op = "settle"
    /\ ~isTransitioning
    /\ settleTimers = 0
    /\ currentSlide = 2

\* C6: there is never more than one chart that was constructed and not
\* destroyed, and the app's handle is that chart.
C6_AtMostOneLiveChart ==
    /\ Cardinality(liveCharts) <= 1
    /\ bookmakerChart # 0 => liveCharts = {bookmakerChart}

\* a second chart was built while the first one's handle was held
C6_Witness ==
    /\ last.op = "render"
    /\ chartsCreated = 2
    /\ Cardinality(liveCharts) = 1

\* C7: whenever a chart-render continuation runs, currentSlide is the
\* trigger slide (last.arg is currentSlide as the continuation saw it).
C7_RenderOnlyOnTrigger ==
    last.op = "render" => last.arg = TriggerSlide

\* C8 as stated: once the transition of an accepted jump(8) has settled,
\* exactly one chart handle exists when the canvas is present.
C8_HandleExistsAtSettle ==
    (last.op = "settle" /\ currentSlide = TriggerSlide /\ canvasPresent)
        => Cardinality(liveCharts) = 1

\* C8 as amended: an accepted jump(8) sets currentSlide to 8 at once; its
\* settle leaves currentSlide at 8, builds nothing and schedules a render;
\* a render runs eventually; and every render whose construction succeeds
\* leaves exactly one chart, a new one, as the app's handle.
C8_JumpToTriggerRenders ==
    /\ [][(last'.op = "setSlide" /\ last'.acc /\ last'.arg = TriggerSlide)
            => (currentSlide' = TriggerSlide /\ settleTimers' = 1)]_vars
    /\ [][(last'.op = "settle" /\ currentSlide = TriggerSlide)
            => /\ currentSlide' = TriggerSlide
               /\ ~isTransitioning'
               /\ chartTimers' = chartTimers + 1
               /\ UNCHANGED chartVars]_vars
    /\ [][(last'.op = "render" /\ last'.res = "built")
            => /\ bookmakerChart' \notin 0..chartsCreated
               /\ liveCharts' = {bookmakerChart'}]_vars
    /\ (last.op = "setSlide" /\ last.acc /\ last.arg = TriggerSlide)
           ~> (last.op = "render")

\* slide 8 was reached a second time and the chart was built again
C8_Witness ==
    /\ last.op = "render"
    /\ last.res = "built"
    /\ bookmakerChart = 2
    /\ currentSlide = TriggerSlide

\* C9: nextSlide called at currentSlide = totalSlides changes nothing.
C9_AdvanceAtEndNoOp ==
    [][(last'.op = "nextSlide" /\ currentSlide = TotalSlides)
         => (UNCHANGED navVars /\ UNCHANGED chartVars)]_vars

\* nextSlide was called on the settled last slide
C9_Witness ==
    /\ last.op = "nextSlide"
    /\ currentSlide = TotalSlides
    /\ ~isTransitioning
    /\ ~last.acc

\* C10: previousSlide called at currentSlide = 1 changes nothing.
C10_RetreatAtStartNoOp ==
    [][(last'.op = "previousSlide" /\ currentSlide = 1)
         => (UNCHANGED navVars /\ UNCHANGED chartVars)]_vars

\* previousSlide was called on the settled first slide
C10_Witness ==
    /\ last.op = "previousSlide"
    /\ currentSlide = 1
    /\ ~isTransitioning
    /\ ~last.acc

\* C11: a jump whose target lies outside [1, totalSlides] changes nothing
\* in any state, and a jump to a slide of the deck made in a settled state
\* starts a transition to exactly that slide.
C11_JumpOutOfRangeNoOp ==
    /\ [][(last'.op = "setSlide" /\ last'.arg \notin 1..TotalSlides)
            => (UNCHANGED navVars /\ UNCHANGED chartVars)]_vars
    /\ [][(last'.op = "setSlide" /\ last'.arg \in 1..TotalSlides
             /\ ~isTransitioning)
            => /\ currentSlide' = last'.arg
               /\ isTransitioning'
               /\ settleTimers' = settleTimers + 1]_vars

\* a jump aimed past the last slide was made in a settled state
C11_Witness ==
    /\ last.op = "setSlide"
    /\ last.arg > TotalSlides
    /\ ~isTransitioning
    /\ currentSlide = TotalSlides

\* C12: in every settled state the previous control is disabled iff the
\* position is 1 and reads "Start" exactly then, the next control is
\* disabled iff the position is totalSlides and reads "End" exactly then,
\* and the counter shows currentSlide and totalSlides.
C12_ControlsAgreeWhenSettled ==
    ~isTransitioning =>
        /\ prevBtn.disabled <=> (currentSlide = 1)
        /\ (prevBtn.text = "Start") <=> prevBtn.disabled
        /\ nextBtn.disabled <=> (currentSlide = TotalSlides)
        /\ (nextBtn.text = "End") <=> nextBtn.disabled
        /\ counterText.current = currentSlide
        /\ counterText.total = TotalSlides

\* the deck has settled on its last slide and the next control reads "End"
C12_Witness ==
    /\ ~isTransitioning
    /\ currentSlide = TotalSlides
    /\ nextBtn.text = "End"
    /\ ~prevBtn.disabled

\* C13: a render whose chart construction fails leaves no live chart and a
\* null handle, and leaves the navigation state as it was.
C13_FailedRenderLeavesNoHandle ==
    [][(last'.op = "render" /\ last'.res = "failed")
         => /\ bookmakerChart' = 0
            /\ liveCharts' = {}
            /\ UNCHANGED <<currentSlide, isTransitioning, active, prevBtn,
                           nextBtn, counterText, settleTimers>>]_vars

\* a construction failed after a chart had been built
C13_Witness ==
    /\ last.op = "render"
    /\ last.res = "failed"
    /\ chartsCreated >= 1
    /\ bookmakerChart = 0

\* C14: every ArrowLeft or ArrowRight keydown has preventDefault called on
\* it, whatever the navigator's state (last.res is the key of a keydown).
C14_ArrowKeysAlwaysPrevented ==
    (last.src = "keydown" /\ last.res \in {"ArrowLeft", "ArrowRight"})
        => last.prevented

\* C15: no handler other than the chart render changes the chart handle or
\* the live charts, and the chart render changes neither currentSlide,
\* isTransitioning, the active markers, the controls nor the settle timers.
C15_NavigatorAndRendererDisjoint ==
    /\ [][last'.op # "render" => UNCHANGED chartVars]_vars
    /\ [][last'.op = "render"
            => UNCHANGED <<currentSlide, isTransitioning, active, prevBtn,
                           nextBtn, counterText, settleTimers>>]_vars

\* a chart was built while a transition was in flight
C15_Witness ==
    /\ last.op = "render"
    /\ last.res = "built"
    /\ isTransitioning
    /\ active = {}

\* C17: a jump to the current slide made in a settled state starts a
\* transition (flag set, current slide deactivated, one continuation
\* scheduled, position kept), the settle re-activates the slide, and on the
\* trigger slide the settle schedules one more chart render.
C17_JumpToCurrentRunsProtocol ==
    /\ [][(last'.op = "setSlide" /\ last'.arg = currentSlide
             /\ ~isTransitioning)
            => /\ isTransitioning'
               /\ currentSlide' = currentSlide
               /\ active' = {}
               /\ settleTimers' = settleTimers + 1]_vars
    /\ [][last'.op = "settle"
            => /\ active' = {currentSlide}
               /\ chartTimers' = chartTimers
                    + (IF currentSlide = TriggerSlide THEN 1 ELSE 0)]_vars

\* the settled trigger slide was jumped to again
C17_Witness ==
    /\ last.op = "setSlide"
    /\ last.acc
    /\ last.arg = TriggerSlide
    /\ counterText.current = TriggerSlide
    /\ isTransitioning
    /\ active = {}

\* the target of the navigation request the last handler made
TargetOf(l, cur) ==
    IF l.op = "setSlide" THEN l.arg
    ELSE IF l.op = "nextSlide" THEN cur + 1
    ELSE cur - 1

\* C18: an accepted navigation request returns with isTransitioning true,
\* currentSlide at the target, no slide active and counter and controls
\* untouched; the settle continuation activates the target, refreshes
\* counter and controls and clears isTransitioning.
C18_TwoPhaseTransition ==
    /\ [][last'.acc
            => /\ isTransitioning'
               /\ currentSlide' = TargetOf(last', currentSlide)
               /\ active' = {}
               /\ UNCHANGED <<counterText, prevBtn, nextBtn>>]_vars
    /\ [][last'.op = "settle"
            => /\ active' = {currentSlide}
               /\ counterText'.current = currentSlide
               /\ prevBtn'.disabled = (currentSlide = 1)
               /\ nextBtn'.disabled = (currentSlide = TotalSlides)
               /\ ~isTransitioning']_vars

\* an advance was accepted and has not settled: the counter still shows
\* the slide that was left
C18_Witness ==
    /\ last.op = "nextSlide"
    /\ last.acc
    /\ isTransitioning
    /\ counterText.current = currentSlide - 1

\* C19: a render that finds no canvas changes neither the chart handle,
\* the live charts nor the navigation state.
C19_NoCanvasNoOp ==
    [][(last'.op = "render" /\ ~canvasPresent)
         => /\ UNCHANGED chartVars
            /\ UNCHANGED <<currentSlide, isTransitioning, active, prevBtn,
                           nextBtn, counterText, settleTimers>>]_vars

\* a render ran on a page without the canvas
C19_Witness ==
    /\ last.op = "render"
    /\ last.res = "nocanvas"
    /\ ~canvasPresent
    /\ bookmakerChart = 0

\* C20: isTransitioning is true exactly when one settle continuation is
\* pending, and never more than one is.
C20_FlagIffSettlePending ==
    /\ isTransitioning <=> (settleTimers = 1)
    /\ settleTimers \in {0, 1}

\* a swipe started a transition that has not settled
C20_Witness ==
    /\ isTransitioning
    /\ settleTimers = 1
    /\ last.src = "touchend"
    /\ last.acc

\* C16 as stated: the calculator returns 0 when the implied probabilities
\* sum to 1 or more, and otherwise a positive profit equal to
\* (1 - sum)/sum * 100; "equal" is read as equal to two decimals, which the
\* exact equality implies.
C16_ProfitPositive ==
    profit # NoProfit =>
        LET total == ImpliedProbSum(odds1, odds2)
            exact == 10000 * (total.den - total.num)  \* times total.num
            shown == profit.hundredths * total.num
        IN IF total.num >= total.den
           THEN profit.hundredths = 0
           ELSE /\ profit.hundredths > 0
                /\ 2 * (shown - exact) <= total.num
                /\ 2 * (exact - shown) <= total.num

\* C16 as amended: the calculator returns the number 0 when the implied
\* probabilities sum to 1 or more, and otherwise the two-decimal string of
\* (1 - sum)/sum * 100: within 0.005 of it, and above zero exactly when the
\* profit is at least 0.005.
C16_ProfitRoundedToCents ==
    profit # NoProfit =>
        LET total == ImpliedProbSum(odds1, odds2)
            exact == 10000 * (total.den - total.num)  \* times total.num
            shown == profit.hundredths * total.num
        IN IF total.num >= total.den
           THEN profit = [type |-> "number", hundredths |-> 0]
           ELSE /\ profit.type = "string"
                /\ 2 * (shown - exact) <= total.num
                /\ 2 * (exact - shown) <= total.num
                /\ (profit.hundredths > 0) <=> (2 * exact >= total.num)

\* calculateArbitrageProfit(2.10, 2.10) has returned "5.00"
C16_Witness ==
    /\ odds1 = 210
    /\ odds2 = 210
    /\ profit = [type |-> "string", hundredths |-> 500]

====
